---- MODULE Spec2Model ----
(***************************************************************************)
(* Model of the execution environment of ethcore (externalities.rs): the   *)
(* host operations an interpreter calls on the frame it runs in, the       *)
(* output policies of `ret`, and the nested dispatch of call and create.   *)
(*                                                                         *)
(* The world state, the substate of every frame on the call stack and the  *)
(* tracer are the state.  One action models one host operation on the      *)
(* innermost frame.  call and create are synchronous in the code: their    *)
(* first half pushes the child frame, and the step that finishes the child *)
(* runs their second half (the match on the executive's result).           *)
(***************************************************************************)
EXTENDS Integers, Sequences, FiniteSets, TLC

(* ---------------------------- bounds ----------------------------------- *)
MaxOps == 3          \* host operations of one transaction that take effect
MaxGas == 3          \* gas budgets are 0..MaxGas
MaxLen == 2          \* longest return data / code / output slice

(* ---------------------------- domains ---------------------------------- *)
Address == 0 .. 2
Key == 0 .. 1
Word == 0 .. 1
Byte == 0 .. 1
Gas == 0 .. MaxGas

\* types::transaction::UNSIGNED_SENDER, one fixed address
UNSIGNED_SENDER == 2

BytesUpTo(n) == UNION {[1 .. k -> Byte] : k \in 0 .. n}
Bytes == BytesUpTo(MaxLen)

Min(a, b) == IF a < b THEN a ELSE b

(* ---------------------------- state ------------------------------------ *)
VARIABLES
    state,      \* State<B>: storage, balance, nonce, code of every account
    env_info,   \* EnvInfo: the number of the block and its last hashes
    engine,     \* Engine::params(): the transition to the blockhash contract
    schedule,   \* Schedule of the block: the fields `ret` reads
    frames,     \* the call stack of Externalities, innermost last
    tracer,     \* Tracer: the suicides traced so far
    last,       \* the host operation that ran last, with its result
    lastRet,    \* the `ret` of the last step, with its buffers before and after
    ops         \* the host operations that took effect so far

vars == <<state, env_info, engine, schedule, frames, tracer, last, lastRet, ops>>

\* Substate::new()
EmptySubstate ==
    [logs |-> <<>>, suicides |-> {}, contracts_created |-> <<>>, sstore_clears_count |-> 0]

Top == frames[Len(frames)]
Running == Len(frames) > 0

\* a frame with its substate replaced
WithSubstate(f, s) == [f EXCEPT !.substate = s]
SetTop(f) == [frames EXCEPT ![Len(frames)] = f]

\* evm::Error variants the host operations return
MutableCallInStaticContext == "MutableCallInStaticContext"
OutOfGas == "OutOfGas"
Internal == "Internal"

NoParams ==
    [sender |-> 0, address |-> 0, code_address |-> 0, origin |-> 0, gas |-> 0,
     gas_price |-> 0, value_kind |-> "None", value |-> 0, call_type |-> "None"]

NoLast ==
    [op |-> "new", static |-> FALSE, depth |-> 0, kind |-> "None", err |-> "None",
     gas |-> 0, data |-> <<>>, addr |-> 0, child |-> "None", child_effects |-> FALSE,
     params |-> NoParams, args |-> <<>>, key |-> 0, value |-> 0, nonce |-> 0,
     number |-> 0, hash |-> 0, regime |-> "None"]

NoRet ==
    [policy |-> "None", gas_in |-> 0, data |-> <<>>, backend_ok |-> TRUE,
     ok |-> FALSE, err |-> "None",
     gas |-> 0, slice_before |-> <<>>, slice |-> <<>>, has_copy |-> FALSE,
     copy |-> <<>>, installed |-> FALSE, address |-> 0, code_before |-> <<>>,
     code |-> <<>>]

\* the record of a host operation of the innermost frame
Op(name) == [NoLast EXCEPT !.op = name, !.static = Top.static_flag, !.depth = Top.depth]
Ok(name) == [Op(name) EXCEPT !.kind = "Ok"]
Err(name, e) == [Op(name) EXCEPT !.kind = "Err", !.err = e]

(* ---------------------------- OutputPolicy ----------------------------- *)
\* OutputPolicy::Return(BytesRef::Fixed(slice), copy)
ReturnFixed(slice, has_copy) ==
    [kind |-> "ReturnFixed", slice |-> slice, has_copy |-> has_copy, copy |-> <<>>]
\* OutputPolicy::Return(BytesRef::Flexible(vec), copy)
ReturnFlexible(vec, has_copy) ==
    [kind |-> "ReturnFlexible", slice |-> vec, has_copy |-> has_copy, copy |-> <<>>]
\* OutputPolicy::InitContract(copy)
InitContract(has_copy) ==
    [kind |-> "InitContract", slice |-> <<>>, has_copy |-> has_copy, copy |-> <<>>]

(* ---------------------------- Init ------------------------------------- *)
Schedules ==
    [create_data_gas : 1 .. 2, create_data_limit : 1 .. MaxLen,
     exceptional_failed_code_deposit : BOOLEAN]

\* the schedules the frames of a transaction run under
TxSchedules == {s \in Schedules : s.create_data_gas = 1 /\ s.create_data_limit = 1}

InitState ==
    [storage |-> [a \in Address |-> [k \in Key |-> 0]],
     balance |-> [a \in Address |-> 1],
     nonce |-> [a \in Address |-> 0],
     code |-> [a \in Address |-> <<>>]]

\* OriginInfo::from(params) and Externalities::new
NewFrame(params, depth, static_flag, output, via, snap) ==
    [address |-> params.address,
     origin |-> params.origin,
     gas_price |-> params.gas_price,
     value |-> params.value,
     depth |-> depth,
     static_flag |-> static_flag,
     output |-> output,
     substate |-> EmptySubstate,
     gas |-> params.gas,
     call_type |-> params.call_type,
     via |-> via,
     snap |-> snap,
     creates |-> 0]

\* the frame the transaction starts in
TopFrame(address, static_flag, output) ==
    NewFrame([NoParams EXCEPT !.address = address, !.gas = MaxGas, !.gas_price = 1,
                              !.value = 1],
             0, static_flag, output, "top", InitState)

\* H256 values: 0 is H256::zero(), the hash of block n stands as n + 1
ZeroHash == 0
HashOf(n) == n + 1

\* the window of last hashes of block c, len of them: entry i (from 1) is the
\* hash of block c - i, and zero where the chain has no such block
LastHashes(c, len) == [i \in 1 .. len |-> IF c >= i THEN HashOf(c - i) ELSE ZeroHash]

\* EnvInfo{number, last_hashes}
EnvInfo(number, len) == [number |-> number, last_hashes |-> LastHashes(number, len)]

\* get_test_env_info(): block 100 and no last hashes
TestEnvInfo == EnvInfo(100, 0)

\* the heights the engine moves blockhash to the contract at
Transitions == {300, 556}

\* Engine::params(): eip210_transition, eip210_contract_address, eip210_contract_gas
Engines ==
    {[eip210_transition |-> t, eip210_contract_address |-> 1,
      eip210_contract_gas |-> MaxGas] : t \in Transitions}

\* an engine whose transition is far from block 100
TestEngine == CHOOSE e \in Engines : e.eip210_transition = 556

InitWith(scheds, addresses, policies) ==
    /\ state = InitState
    /\ env_info = TestEnvInfo
    /\ engine = TestEngine
    /\ schedule \in scheds
    /\ \E a \in addresses, s \in BOOLEAN, p \in policies :
          frames = <<TopFrame(a, s, p)>>
    /\ tracer = <<>>
    /\ last = NoLast
    /\ lastRet = NoRet
    /\ ops = 0

\* a transaction at address 0, static or not
Init == InitWith(TxSchedules, {0}, {InitContract(FALSE)})

\* a frame at any address, static or not
InitHost == InitWith({CHOOSE s \in TxSchedules : s.exceptional_failed_code_deposit},
                     Address, {InitContract(FALSE)})

\* the output policies a frame is constructed with
Policies ==
    {InitContract(c) : c \in BOOLEAN}
        \cup {ReturnFixed(b, c) : b \in Bytes, c \in BOOLEAN}
        \cup {ReturnFlexible(b, c) : b \in BytesUpTo(1), c \in BOOLEAN}

\* a frame about to return, under any policy and schedule
InitRet == InitWith(Schedules, {0}, Policies)

(* ---------------------------- the static flag -------------------------- *)
\* a host that never looks at the static flag
RefusesNothing(f) == FALSE

\* `if self.static_flag` at the head of set_storage, log and suicide
RefusesMutation(f) == f.static_flag

(* ---------------------------- set_storage ------------------------------ *)
\* State::set_storage(address, key, value)
StateSetStorage(st, a, k, v) == [st EXCEPT !.storage[a][k] = v]

\* State::storage_at(address, key)
StateStorageAt(st, a, k) == st.storage[a][k]

\* a host that keeps the storage under the origin of the transaction
StorageOfOrigin(f) == f.origin

\* `&self.origin_info.address`: the account whose storage the frame reads and writes
StorageOwner(f) == f.address

\* Externalities::storage_at; backend_ok: the state backend answers
StorageAt(key, backend_ok) ==
    /\ Running
    /\ last' = IF backend_ok
               THEN [Ok("storage_at") EXCEPT
                        !.key = key, !.value = StateStorageAt(state, StorageOwner(Top), key)]
               ELSE [Err("storage_at", Internal) EXCEPT !.key = key]
    /\ lastRet' = NoRet
    /\ UNCHANGED <<state, env_info, engine, schedule, frames, tracer, ops>>

\* Externalities::set_storage; backend_ok: the state backend answers
SetStorage(key, value, backend_ok) ==
    /\ Running
    /\ IF RefusesMutation(Top)
       THEN /\ last' = [Err("set_storage", MutableCallInStaticContext) EXCEPT
                           !.key = key, !.value = value]
            /\ UNCHANGED <<state, ops>>
       ELSE IF backend_ok
       THEN /\ ops < MaxOps
            /\ ops' = ops + 1
            /\ state' = StateSetStorage(state, StorageOwner(Top), key, value)
            /\ last' = [Ok("set_storage") EXCEPT !.key = key, !.value = value]
       ELSE /\ last' = [Err("set_storage", Internal) EXCEPT !.key = key, !.value = value]
            /\ UNCHANGED <<state, ops>>
    /\ lastRet' = NoRet
    /\ UNCHANGED <<env_info, engine, schedule, frames, tracer>>

(* ---------------------------- log -------------------------------------- *)
LogEntry(address, topics, data) == [address |-> address, topics |-> topics, data |-> data]

\* a substate that takes the newest entry first
PushLogFront(sub, entry) == [sub EXCEPT !.logs = <<entry>> \o @]

\* the substate after self.substate.logs.push(entry)
PushLog(sub, entry) == [sub EXCEPT !.logs = Append(@, entry)]

\* Externalities::log
Log(topics, data) ==
    /\ Running
    /\ IF RefusesMutation(Top)
       THEN /\ last' = Err("log", MutableCallInStaticContext)
            /\ UNCHANGED <<frames, ops>>
       ELSE /\ ops < MaxOps
            /\ ops' = ops + 1
            /\ frames' = SetTop(WithSubstate(Top,
                            PushLog(Top.substate, LogEntry(Top.address, topics, data))))
            /\ last' = [Ok("log") EXCEPT !.data = data, !.args = topics]
    /\ lastRet' = NoRet
    /\ UNCHANGED <<state, env_info, engine, schedule, tracer>>

(* ---------------------------- suicide ---------------------------------- *)
\* State::sub_balance(a, by)
SubBalance(st, a, by) == [st EXCEPT !.balance[a] = @ - by]
\* State::transfer_balance(from, to, by): sub_balance then add_balance
TransferBalance(st, from, to, by) ==
    [st EXCEPT !.balance = [[@ EXCEPT ![from] = @ - by] EXCEPT ![to] = @ + by]]

\* a suicide that leaves the suicide set alone
InsertNothing(sub, address) == sub

\* the substate after self.substate.suicides.insert(address)
InsertSuicide(sub, address) == [sub EXCEPT !.suicides = @ \cup {address}]

\* a suicide that burns the balance whatever the refund address
SuicideBurns(st, address, refund_address, balance) == SubBalance(st, address, balance)

\* the world state after the balance step of suicide: to itself the address
\* loses its balance, to another address the balance is transferred
SuicideBalance(st, address, refund_address, balance) ==
    IF address = refund_address
    THEN SubBalance(st, address, balance)
    ELSE TransferBalance(st, address, refund_address, balance)

\* a host that records the refund address, as the test double of the
\* interpreter tests does
SuicideEntryRefund(address, refund_address) == refund_address

\* what suicide puts in the suicide set: the frame's own address
SuicideEntry(address, refund_address) == address

\* what a suicide that is not refused does to the world state, the tracer and
\* the substate
SuicideEffects(refund_address) ==
    LET address == Top.address
        balance == state.balance[address]
    IN /\ state' = SuicideBalance(state, address, refund_address, balance)
       /\ tracer' = Append(tracer,
             [address |-> address, balance |-> balance, refund |-> refund_address])
       /\ frames' = SetTop(WithSubstate(Top,
             InsertSuicide(Top.substate, SuicideEntry(address, refund_address))))

\* Externalities::suicide
Suicide(refund_address, backend_ok) ==
    /\ Running
    /\ IF RefusesMutation(Top)
       THEN /\ last' = Err("suicide", MutableCallInStaticContext)
            /\ UNCHANGED <<state, frames, tracer, ops>>
       ELSE IF ~backend_ok
       THEN /\ last' = Err("suicide", Internal)
            /\ UNCHANGED <<state, frames, tracer, ops>>
       ELSE /\ ops < MaxOps
            /\ ops' = ops + 1
            /\ SuicideEffects(refund_address)
            /\ last' = [Ok("suicide") EXCEPT !.addr = refund_address]
    /\ lastRet' = NoRet
    /\ UNCHANGED <<env_info, engine, schedule>>

(* ---------------------------- inc_sstore_clears ------------------------ *)
\* a host that counts no clear in a static frame
SstoreClearsUnlessStatic(f) ==
    IF f.static_flag THEN f.substate
    ELSE [f.substate EXCEPT !.sstore_clears_count = @ + 1]

\* the substate after sstore_clears_count = sstore_clears_count + U256::one()
SstoreClears(f) == [f.substate EXCEPT !.sstore_clears_count = @ + 1]

\* Externalities::inc_sstore_clears: it tests no flag and returns nothing
IncSstoreClears ==
    /\ Running
    /\ ops < MaxOps
    /\ ops' = ops + 1
    /\ frames' = SetTop(WithSubstate(Top, SstoreClears(Top)))
    /\ last' = Ok("inc_sstore_clears")
    /\ lastRet' = NoRet
    /\ UNCHANGED <<state, env_info, engine, schedule, tracer>>

(* ---------------------------- ret -------------------------------------- *)
\* handle_copy: the copy sink, when there is one, receives the whole data
HandleCopy(output, data) == IF output.has_copy THEN data ELSE output.copy

\* a copy that clears the bytes of the slice past the data
CopyClearingRest(slice, data, len) ==
    [i \in 1 .. Len(slice) |-> IF i <= len THEN data[i] ELSE 0]

\* (&mut slice[..len]).copy_from_slice(&data[..len])
CopyFromSlice(slice, data, len) ==
    [i \in 1 .. Len(slice) |-> IF i <= len THEN data[i] ELSE slice[i]]

\* the deposit test with >= for >: a deposit costing all the gas is refused
DepositRefusedAtEqual(sched, gas, data) ==
    \/ Len(data) * sched.create_data_gas >= gas
    \/ Len(data) > sched.create_data_limit

\* the deposit test without the size cap
DepositRefusedNoLimit(sched, gas, data) ==
    Len(data) * sched.create_data_gas > gas

\* the deposit test without the cost test
DepositRefusedNoCost(sched, gas, data) ==
    Len(data) > sched.create_data_limit

\* the InitContract test that refuses the deposit
DepositRefused(sched, gas, data) ==
    \/ Len(data) * sched.create_data_gas > gas
    \/ Len(data) > sched.create_data_limit

\* U256 subtraction: the result, or -1 where the U256 operator overflows
U256Sub(a, b) == IF b > a THEN -1 ELSE a - b

\* the result of a ret: Ok(gas) or Err(err), the buffers of the policy after
\* it, and whether init_code installed the data
RetResult(ok, err, gas, slice, copy, installed) ==
    [ok |-> ok, err |-> err, gas |-> gas, slice |-> slice, copy |-> copy,
     installed |-> installed]

\* Externalities::ret as a function of the frame's policy, the schedule, the
\* arguments and whether the backend answers init_code
Ret(output, sched, gas, data, backend_ok) ==
    CASE output.kind = "ReturnFixed" ->
           RetResult(TRUE, "None", gas,
                     CopyFromSlice(output.slice, data, Min(Len(output.slice), Len(data))),
                     HandleCopy(output, data), FALSE)
      [] output.kind = "ReturnFlexible" ->
           RetResult(TRUE, "None", gas, data, HandleCopy(output, data), FALSE)
      [] output.kind = "InitContract" ->
           IF DepositRefused(sched, gas, data)
           THEN IF sched.exceptional_failed_code_deposit
                THEN RetResult(FALSE, OutOfGas, 0, output.slice, output.copy, FALSE)
                ELSE RetResult(TRUE, "None", gas, output.slice, output.copy, FALSE)
           ELSE IF ~backend_ok
           THEN RetResult(FALSE, Internal, 0, output.slice, HandleCopy(output, data), FALSE)
           ELSE IF U256Sub(gas, Len(data) * sched.create_data_gas) < 0
           THEN RetResult(FALSE, "Overflow", 0, output.slice, HandleCopy(output, data), TRUE)
           ELSE RetResult(TRUE, "None", U256Sub(gas, Len(data) * sched.create_data_gas),
                          output.slice, HandleCopy(output, data), TRUE)

\* State::init_code(address, code)
InitCode(st, a, code) == [st EXCEPT !.code[a] = code]

\* what lastRet records of the ret of frame f, st being the world state after it
RetRecord(f, gas, data, backend_ok, r, st) ==
    [policy |-> f.output.kind, gas_in |-> gas, data |-> data, backend_ok |-> backend_ok,
     ok |-> r.ok, err |-> r.err, gas |-> r.gas,
     slice_before |-> f.output.slice, slice |-> r.slice,
     has_copy |-> f.output.has_copy, copy |-> r.copy,
     installed |-> r.installed, address |-> f.address,
     code_before |-> state.code[f.address], code |-> st.code[f.address]]

(* ---------------------------- executive -------------------------------- *)
\* keccak of a preimage, cut to an address
Keccak(preimage) == preimage % 3
CodeHash(code) == Len(code) + (IF Len(code) > 0 THEN code[1] ELSE 0)

\* executive::contract_address(scheme, sender, nonce, code)
ContractAddress(scheme, sender, nonce, code) ==
    CASE scheme = "FromSenderAndNonce" -> Keccak(sender + nonce + 1)
      [] scheme = "FromSenderSaltAndCodeHash" -> Keccak(2 + sender + CodeHash(code))
      [] scheme = "FromSenderAndCodeHash" -> Keccak(sender + CodeHash(code))

\* Substate::accrue: the parent's substate with a child's merged in
Accrue(sub, child) ==
    [logs |-> sub.logs \o child.logs,
     suicides |-> sub.suicides \cup child.suicides,
     contracts_created |-> sub.contracts_created \o child.contracts_created,
     sstore_clears_count |-> sub.sstore_clears_count + child.sstore_clears_count]

\* the static flag of the child the executive runs for params
ChildStatic(static_flag, params) == static_flag \/ params.call_type = "StaticCall"

\* Executive::create refuses a create in a static context
CreateRefused(static_flag, params) == static_flag
\* Executive::call refuses a value transfer in a static context
CallRefused(static_flag, params) == static_flag /\ params.value_kind = "Transfer"

\* the world state when the child starts: Transfer(v) moves the funds first
Dispatched(st, params) ==
    IF params.value_kind = "Transfer"
    THEN TransferBalance(st, params.sender, params.address, params.value)
    ELSE st

\* the funds a Transfer needs are there
Funded(st, params) ==
    params.value_kind = "Transfer" => st.balance[params.sender] >= params.value

\* an executive that starts afresh, as Executive::new does
FromNowhere(f) == [depth |-> f.depth, static_flag |-> FALSE]

\* the depth and static flag create and call hand to Executive::from_parent
FromParent(f) == [depth |-> f.depth, static_flag |-> f.static_flag]

\* the executive made by from_parent running params: the child frame
ChildFrame(ex, params, output, via, snap) ==
    NewFrame(params, ex.depth + 1, ChildStatic(ex.static_flag, params), output, via, snap)

(* ---------------------------- create ----------------------------------- *)
\* create parameters that name the creating frame as the origin
CreateParamsOriginSender(f, address, gas, value) ==
    [sender |-> f.address, address |-> address, code_address |-> address,
     origin |-> f.address, gas |-> gas, gas_price |-> f.gas_price,
     value_kind |-> "Transfer", value |-> value, call_type |-> "None"]

\* the ActionParams create builds
CreateParams(f, address, gas, value) ==
    [sender |-> f.address, address |-> address, code_address |-> address,
     origin |-> f.origin, gas |-> gas, gas_price |-> f.gas_price,
     value_kind |-> "Transfer", value |-> value, call_type |-> "None"]

\* State::inc_nonce(address)
IncNonce(st, a) == [st EXCEPT !.nonce[a] = @ + 1]

\* a nonce step that spares no sender
AfterNonceAlways(st, params) == IncNonce(st, params.sender)

\* the state after the nonce step of create
AfterNonce(st, params) ==
    IF params.sender # UNSIGNED_SENDER THEN IncNonce(st, params.sender) ELSE st

\* what a create was given and found: the scheme and the code, the nonce the
\* frame's address had when the frame began, and how many creates the frame
\* has made, this one included
CreateArgs(f, address_scheme, code) ==
    [address_scheme |-> address_scheme, code |-> code, sender |-> f.address,
     nonce0 |-> f.snap.nonce[f.address], k |-> f.creates + 1]

\* the frame after one more create
CountCreate(f) == [f EXCEPT !.creates = @ + 1]

\* ContractCreateResult::Failed, with what made it fail
CreateFailed(why, params) ==
    [Op("create") EXCEPT !.kind = "Failed", !.child = why, !.params = params,
                         !.addr = params.address]

\* Externalities::create up to the dispatch of the child; nonce_ok and inc_ok:
\* the backend answers nonce() and inc_nonce()
Create(gas, value, code, address_scheme, nonce_ok, inc_ok) ==
    /\ Running
    /\ LET address == ContractAddress(address_scheme, Top.address,
                                      state.nonce[Top.address], code)
           params == CreateParams(Top, address, gas, value)
           st == AfterNonce(state, params)
       IN IF ~nonce_ok
          THEN /\ last' = CreateFailed("BackendError", NoParams)
               /\ UNCHANGED <<state, frames, ops>>
          ELSE IF params.sender # UNSIGNED_SENDER /\ ~inc_ok
          THEN /\ last' = CreateFailed("BackendError", params)
               /\ UNCHANGED <<state, frames, ops>>
          ELSE IF CreateRefused(FromParent(Top).static_flag, params)
          THEN /\ ops < MaxOps
               /\ ops' = ops + 1
               /\ state' = st
               /\ last' = [CreateFailed(MutableCallInStaticContext, params) EXCEPT
                              !.nonce = state.nonce[Top.address], !.value = value,
                              !.args = CreateArgs(Top, address_scheme, code)]
               /\ frames' = SetTop(CountCreate(Top))
          ELSE /\ ops < MaxOps
               /\ ops' = ops + 1
               /\ Funded(st, params)
               /\ state' = Dispatched(st, params)
               /\ frames' = Append(SetTop(CountCreate(Top)),
                     ChildFrame(FromParent(Top), params, InitContract(FALSE), "create", st))
               /\ last' = [Op("create") EXCEPT !.kind = "Dispatched", !.params = params,
                                               !.addr = address,
                                               !.nonce = state.nonce[Top.address],
                                               !.value = value,
                                               !.args = CreateArgs(Top, address_scheme, code)]
    /\ lastRet' = NoRet
    /\ UNCHANGED <<env_info, engine, schedule, tracer>>

(* ---------------------------- call ------------------------------------- *)
\* call parameters whose value is always a transfer
CallParamsTransfer(f, gas, sender_address, receive_address, value, code_address, call_type) ==
    [sender |-> sender_address, address |-> receive_address,
     code_address |-> code_address, origin |-> f.origin, gas |-> gas,
     gas_price |-> f.gas_price,
     value_kind |-> "Transfer",
     value |-> IF value = <<>> THEN 0 ELSE value[1],
     call_type |-> call_type]

\* the ActionParams call builds; value is <<>> for None and <<v>> for Some(v)
CallParams(f, gas, sender_address, receive_address, value, code_address, call_type) ==
    [sender |-> sender_address, address |-> receive_address,
     code_address |-> code_address, origin |-> f.origin, gas |-> gas,
     gas_price |-> f.gas_price,
     value_kind |-> IF value = <<>> THEN "Apparent" ELSE "Transfer",
     value |-> IF value = <<>> THEN f.value ELSE value[1],
     call_type |-> call_type]

\* what a call was given: its address arguments, its value, and the value and
\* gas price of the frame that made it
CallArgs(f, sender_address, receive_address, value, code_address) ==
    [sender_address |-> sender_address, receive_address |-> receive_address,
     value |-> value, code_address |-> code_address,
     frame_value |-> f.value, frame_gas_price |-> f.gas_price]

\* MessageCallResult::Failed, with what made it fail
CallFailed(why, params) ==
    [Op("call") EXCEPT !.kind = "Failed", !.child = why, !.params = params]

\* Externalities::call up to the dispatch of the child; code_ok: the backend
\* answers code() and code_hash()
Call(gas, sender_address, receive_address, value, code_address, output, call_type, code_ok) ==
    /\ Running
    /\ LET params == CallParams(Top, gas, sender_address, receive_address, value,
                                code_address, call_type)
       IN IF ~code_ok
          THEN /\ last' = CallFailed("BackendError", NoParams)
               /\ UNCHANGED <<state, frames, ops>>
          ELSE IF CallRefused(FromParent(Top).static_flag, params)
          THEN /\ last' = CallFailed(MutableCallInStaticContext, params)
               /\ UNCHANGED <<state, frames, ops>>
          ELSE /\ ops < MaxOps
               /\ ops' = ops + 1
               /\ Funded(state, params)
               /\ state' = Dispatched(state, params)
               /\ frames' = Append(frames,
                     ChildFrame(FromParent(Top), params, ReturnFixed(output, FALSE),
                                "call", state))
               /\ last' = [Op("call") EXCEPT !.kind = "Dispatched", !.params = params,
                                             !.args = CallArgs(Top, sender_address,
                                                               receive_address, value,
                                                               code_address)]
    /\ lastRet' = NoRet
    /\ UNCHANGED <<env_info, engine, schedule, tracer>>

(* ---------------------------- blockhash -------------------------------- *)
\* the literal 256 of the regime test and of the window test
ContractLead == 256
WindowSize == 256

Max(a, b) == IF a > b THEN a ELSE b

\* `self.env_info.number + 256 >= self.engine.params().eip210_transition`
ContractRegime(info, eng) == info.number + ContractLead >= eng.eip210_transition

\* a window test that leaves out its oldest block
InWindowShort(c, h) == h < c /\ h > Max(WindowSize, c) - WindowSize

\* `*number < env_info.number && number >= cmp::max(256, env_info.number) - 256`
InWindow(c, h) == h < c /\ h >= Max(WindowSize, c) - WindowSize

\* the ActionParams of the synthetic call to the blockhash contract
BlockhashParams(f, eng) ==
    [sender |-> f.address, address |-> eng.eip210_contract_address,
     code_address |-> eng.eip210_contract_address, origin |-> f.origin,
     gas |-> eng.eip210_contract_gas, gas_price |-> 0,
     value_kind |-> "Apparent", value |-> f.value, call_type |-> "Call"]

\* Executive::new takes no depth and no static flag: it starts at depth 0,
\* not static
ExecutiveNew == [depth |-> 0, static_flag |-> FALSE]

\* the frame the executive made by Executive::new runs params in
NewExecutiveFrame(params, output, via, snap) ==
    NewFrame(params, ExecutiveNew.depth, ChildStatic(ExecutiveNew.static_flag, params),
             output, via, snap)

\* the record of a blockhash of the innermost frame
BlockhashOp(number, regime) ==
    [Op("blockhash") EXCEPT !.number = number, !.regime = regime]

\* Externalities::blockhash up to the dispatch of the child; code_ok: the
\* backend answers code() and code_hash() of the contract
Blockhash(number, code_ok) ==
    /\ Running
    /\ IF ContractRegime(env_info, engine)
       THEN IF ~code_ok
            THEN /\ last' = [BlockhashOp(number, "contract") EXCEPT
                                !.kind = "Ok", !.hash = ZeroHash, !.child = "BackendError"]
                 /\ UNCHANGED <<frames, ops>>
            ELSE /\ ops < MaxOps
                 /\ ops' = ops + 1
                 /\ frames' = Append(frames,
                       NewExecutiveFrame(BlockhashParams(Top, engine),
                                         ReturnFixed(<<ZeroHash>>, FALSE), "blockhash", state))
                 /\ last' = [BlockhashOp(number, "contract") EXCEPT
                                !.kind = "Dispatched",
                                !.params = BlockhashParams(Top, engine)]
       ELSE LET c == env_info.number
                index == c - number - 1
            IN /\ IF InWindow(c, number)
                  THEN IF index < Len(env_info.last_hashes)
                       THEN /\ last' = [BlockhashOp(number, "window") EXCEPT
                                           !.kind = "Ok",
                                           !.hash = env_info.last_hashes[index + 1]]
                            /\ UNCHANGED frames
                       ELSE \* assert!(index < last_hashes.len()) fails: the thread panics
                            /\ last' = [BlockhashOp(number, "window") EXCEPT !.kind = "Panic"]
                            /\ frames' = <<>>
                  ELSE /\ last' = [BlockhashOp(number, "window") EXCEPT
                                      !.kind = "Ok", !.hash = ZeroHash]
                       /\ UNCHANGED frames
               /\ UNCHANGED ops
    /\ lastRet' = NoRet
    /\ UNCHANGED <<state, env_info, engine, schedule, tracer>>

(* ---------------------------- the guest interpreter -------------------- *)
\* the linear memory of a guest: bytes that differ from their neighbours
Memories == {[i \in 1 .. MaxLen |-> (i + b) % 2] : b \in Byte}

\* the gas a guest uses: some, all of its budget, and more than that
GasUsed == {1, MaxGas, MaxGas + 1}

\* what an execution of a guest did and how it ended: the refund address of
\* its self-destruct (<<>> for none), the result_ptr and result_len it left
\* in the call descriptor, its memory, the gas budget, and apply_state
GuestRun(self_destruct, result_ptr, result_len, memory, budget, apply_state) ==
    [self_destruct |-> self_destruct, result_ptr |-> result_ptr,
     result_len |-> result_len, memory |-> memory, budget |-> budget,
     apply_state |-> apply_state]

\* the record of an execution that ends with Err(err)
ExecErr(err, run) == [Err("exec", err) EXCEPT !.args = run]
\* GasLeft::Known(gas_left)
ExecKnown(gas_left, run) == [Op("exec") EXCEPT !.kind = "Known", !.gas = gas_left, !.args = run]
\* GasLeft::NeedsReturn{gas_left, data, apply_state}
ExecNeedsReturn(gas_left, data, run) ==
    [Op("exec") EXCEPT !.kind = "NeedsReturn", !.gas = gas_left, !.data = data, !.args = run]

\* an adapter that returns data only when result_len is not zero
BothZeroLenOnly(result_ptr, result_len) == result_len = 0

\* the descriptor says the guest returns nothing
BothZero(result_ptr, result_len) == result_ptr = 0 /\ result_len = 0

\* copy of linear memory[result_ptr .. result_ptr + result_len]
MemoryCopy(memory, result_ptr, result_len) ==
    SubSeq(memory, result_ptr + 1, result_ptr + result_len)

\* an execution in which the guest invokes self-destruct after using `used`
\* gas: the host's suicide runs, and the execution ends with Known(gas_left)
GuestSelfDestruct(refund_address, used, backend_ok) ==
    /\ Running
    /\ LET run == GuestRun(<<refund_address>>, 0, 0, <<>>, Top.gas, FALSE)
       IN IF used > Top.gas
          THEN /\ last' = ExecErr(OutOfGas, run)
               /\ UNCHANGED <<state, frames, tracer, ops>>
          ELSE IF RefusesMutation(Top) \/ ~backend_ok
          THEN /\ last' = ExecErr("Wasm", run)
               /\ UNCHANGED <<state, frames, tracer, ops>>
          ELSE /\ ops < MaxOps
               /\ ops' = ops + 1
               /\ SuicideEffects(refund_address)
               /\ last' = ExecKnown(Top.gas - used, run)
    /\ lastRet' = NoRet
    /\ UNCHANGED <<env_info, engine, schedule>>

\* an execution that completes normally after using `used` gas, the guest
\* having left result_ptr and result_len in the descriptor
GuestCompletes(result_ptr, result_len, memory, used) ==
    /\ Running
    /\ LET run == GuestRun(<<>>, result_ptr, result_len, memory, Top.gas, TRUE)
       IN last' = IF used > Top.gas
                  THEN ExecErr(OutOfGas, run)
                  ELSE IF BothZero(result_ptr, result_len)
                  THEN ExecKnown(Top.gas - used, [run EXCEPT !.apply_state = FALSE])
                  ELSE IF result_ptr + result_len > Len(memory)
                  THEN ExecErr("Wasm", run)
                  ELSE ExecNeedsReturn(Top.gas - used,
                                       MemoryCopy(memory, result_ptr, result_len), run)
    /\ lastRet' = NoRet
    /\ UNCHANGED <<state, env_info, engine, schedule, frames, tracer, ops>>

(* ---------------------------- the end of a frame ----------------------- *)
\* evm::Result<FinalizationResult> of a frame
Finalization(ok, err, gas_left, data, apply_state, how) ==
    [ok |-> ok, err |-> err, gas_left |-> gas_left, data |-> data,
     apply_state |-> apply_state, how |-> how]

\* the substate after self.substate.contracts_created.push(address)
PushCreated(sub, address) == [sub EXCEPT !.contracts_created = Append(@, address)]

\* the second half of Externalities::create: the match on ex.create's result
CreateResult(parent, child, res) ==
    IF res.ok
    THEN [NoLast EXCEPT !.op = "create", !.static = parent.static_flag,
                        !.depth = parent.depth, !.kind = "Created",
                        !.addr = child.address, !.gas = res.gas_left, !.child = res.how,
                        !.nonce = child.snap.nonce[parent.address],
                        !.child_effects = child.substate # EmptySubstate]
    ELSE [NoLast EXCEPT !.op = "create", !.static = parent.static_flag,
                        !.depth = parent.depth, !.kind = "Failed",
                        !.addr = child.address, !.child = res.how,
                        !.nonce = child.snap.nonce[parent.address],
                        !.child_effects = child.substate # EmptySubstate]

\* a create that records the address whatever the child's result
CreateSubstateAlways(sub, child, res) == PushCreated(sub, child.address)

\* a create that never records the address
CreateSubstateNever(sub, child, res) == sub

\* the parent's substate after the second half of Externalities::create
CreateSubstate(sub, child, res) ==
    IF res.ok THEN PushCreated(sub, child.address) ELSE sub

\* the second half of Externalities::call: the match on ex.call's result
CallResult(parent, child, res) ==
    IF res.ok
    THEN [NoLast EXCEPT !.op = "call", !.static = parent.static_flag,
                        !.depth = parent.depth, !.kind = "Success",
                        !.gas = res.gas_left, !.data = res.data, !.child = res.how,
                        !.child_effects = child.substate # EmptySubstate]
    ELSE [NoLast EXCEPT !.op = "call", !.static = parent.static_flag,
                        !.depth = parent.depth, !.kind = "Failed", !.child = res.how,
                        !.child_effects = child.substate # EmptySubstate]

\* the second half of Externalities::blockhash: whatever ex.call answers, the
\* 32 bytes of `output` are returned, as the child's ret left them
BlockhashResult(parent, child, res) ==
    [NoLast EXCEPT !.op = "blockhash", !.static = parent.static_flag,
                   !.depth = parent.depth, !.kind = "Ok", !.regime = "contract",
                   !.child = res.how,
                   !.child_effects = child.substate # EmptySubstate,
                   !.hash = IF res.how \in {"Returned", "Reverted"}
                            THEN Ret(child.output, schedule, res.gas_left, res.data, TRUE).slice[1]
                            ELSE child.output.slice[1]]

\* Executive: whether the frame's effects stay
Applied(res) == res.ok /\ res.apply_state

\* the innermost frame ends with res, the world state being st when it does:
\* the executive keeps or reverts its effects and the parent's host operation
\* returns
EndFrame(res, st) ==
    LET child == Top
        n == Len(frames)
    IN /\ state' = IF Applied(res) THEN st ELSE child.snap
       /\ IF child.via = "top"
          THEN /\ frames' = <<>>
               /\ last' = [NoLast EXCEPT !.op = "exec", !.static = child.static_flag,
                              !.kind = IF res.ok THEN "Ok" ELSE "Err", !.err = res.err,
                              !.gas = res.gas_left, !.data = res.data, !.child = res.how]
          ELSE LET parent == frames[n - 1]
                   merged == IF Applied(res)
                             THEN Accrue(parent.substate, child.substate)
                             ELSE parent.substate
                   sub == IF child.via = "create"
                          THEN CreateSubstate(merged, child, res)
                          ELSE merged
               IN /\ frames' = [SubSeq(frames, 1, n - 1) EXCEPT
                                   ![n - 1] = WithSubstate(parent, sub)]
                  /\ last' = CASE child.via = "create" -> CreateResult(parent, child, res)
                               [] child.via = "call" -> CallResult(parent, child, res)
                               [] child.via = "blockhash" ->
                                     BlockhashResult(parent, child, res)

\* the guest finishes with GasLeft::Known(gas_left)
FinishKnown(gas_left) ==
    /\ Running
    /\ gas_left <= Top.gas
    /\ EndFrame(Finalization(TRUE, "None", gas_left, <<>>, TRUE, "Known"), state)
    /\ lastRet' = NoRet
    /\ UNCHANGED <<env_info, engine, schedule, tracer, ops>>

\* the guest finishes with GasLeft::NeedsReturn{gas_left, data, apply_state}:
\* finalize calls ret on the frame
FinishReturn(gas_left, data, apply_state, backend_ok) ==
    /\ Running
    /\ gas_left <= Top.gas
    /\ LET r == Ret(Top.output, schedule, gas_left, data, backend_ok)
           st == IF r.installed THEN InitCode(state, Top.address, data) ELSE state
           how == IF ~r.ok THEN (IF r.err = Internal THEN "Internal" ELSE "Failed")
                  ELSE IF apply_state THEN "Returned" ELSE "Reverted"
       IN /\ lastRet' = RetRecord(Top, gas_left, data, backend_ok, r, st)
          /\ EndFrame(Finalization(r.ok, r.err, r.gas, data, apply_state, how), st)
    /\ UNCHANGED <<env_info, engine, schedule, tracer, ops>>

\* the guest ends with an error: a frame-fatal one, or an internal one
FinishError(err) ==
    /\ Running
    /\ EndFrame(Finalization(FALSE, err, 0, <<>>, FALSE,
                             IF err = Internal THEN "Internal" ELSE "Failed"), state)
    /\ lastRet' = NoRet
    /\ UNCHANGED <<env_info, engine, schedule, tracer, ops>>

(* ---------------------------- specification ---------------------------- *)
\* the arguments the host operations are called with
Schemes == {"FromSenderAndNonce", "FromSenderAndCodeHash"}
CallTypes == {"Call", "StaticCall"}
ReturnData == {<<1>>, <<1, 0>>}
Other(a) == (a + 1) % 3
\* the address of the innermost frame
Self == IF Running THEN Top.address ELSE 0

Next ==
    \/ SetStorage(0, 1, TRUE)
    \/ Log(<<1>>, <<>>)
    \/ \E r \in {Self, Other(Self)} : Suicide(r, TRUE)
    \/ \E s \in Schemes, b1, b2 \in BOOLEAN : Create(MaxGas, 1, <<1>>, s, b1, b2)
    \/ \E v \in {<<>>, <<1>>}, b \in BOOLEAN, t \in CallTypes :
          /\ t = "StaticCall" => v = <<>>
          /\ Call(MaxGas, Self, Other(Self), v, Other(Self), <<0>>, t, b)
    \/ FinishKnown(1)
    \/ \E d \in ReturnData, a \in BOOLEAN : FinishReturn(1, d, a, TRUE)
    \/ \E e \in {OutOfGas, Internal} : FinishError(e)

Spec == Init /\ [][Next]_vars

\* one frame and the host operations that need no child, with all their arguments
NextHost ==
    \/ \E k \in Key, v \in Word, b \in BOOLEAN : SetStorage(k, v, b)
    \/ \E k \in Key, b \in BOOLEAN : StorageAt(k, b)
    \/ \E t \in BytesUpTo(1), d \in BytesUpTo(1) : Log(t, d)
    \/ \E r \in Address, b \in BOOLEAN : Suicide(r, b)

SpecHost == InitHost /\ [][NextHost]_vars

\* ret on a frame, for every policy, schedule, gas and data
NextRet == \E g \in Gas, d \in Bytes, a, b \in BOOLEAN : FinishReturn(g, d, a, b)

SpecRet == InitRet /\ [][NextRet]_vars

\* a transaction frame at address 0 with the given origin, value and gas price
TxFrame(origin, value, gas_price) ==
    NewFrame([NoParams EXCEPT !.address = 0, !.origin = origin, !.gas = MaxGas,
                              !.gas_price = gas_price, !.value = value],
             0, FALSE, InitContract(FALSE), "top", InitState)

InitFrames(tops, engines) ==
    /\ state = InitState
    /\ env_info = TestEnvInfo
    /\ engine \in engines
    /\ schedule = CHOOSE s \in TxSchedules : s.exceptional_failed_code_deposit
    /\ \E f \in tops : frames = <<f>>
    /\ tracer = <<>>
    /\ last = NoLast
    /\ lastRet = NoRet
    /\ ops = 0

\* call with every choice of its address arguments and of its value, from
\* frames of either value and gas price
InitCall == InitFrames({TxFrame(0, v, 2) : v \in 0 .. 1}, {TestEngine})

NextCall ==
    \/ \E s \in {Self, Other(Self)}, r \in Address, v \in {<<>>, <<0>>, <<1>>} :
          \E c \in {r, Other(r)} : Call(MaxGas, s, r, v, c, <<0>>, "Call", TRUE)
    \/ FinishKnown(1)
    \/ FinishError(OutOfGas)

SpecCall == InitCall /\ [][NextCall]_vars

\* the call tree of a transaction of any origin: create, call and the
\* synthetic call of blockhash, under an engine past its transition
InitTree == InitFrames({TxFrame(o, 1, 1) : o \in Address}, Engines \ {TestEngine})

NextTree ==
    \/ \E s \in Schemes : Create(MaxGas, 0, <<1>>, s, TRUE, TRUE)
    \/ \E r \in {Self, Other(Self)} :
          Call(MaxGas, Self, r, <<>>, r, <<0>>, "Call", TRUE)
    \/ Blockhash(0, TRUE)
    \/ FinishKnown(1)
    \/ FinishError(OutOfGas)

SpecTree == InitTree /\ [][NextTree]_vars

\* executions of guests on a frame at any address, static or not
NextGuest ==
    \/ \E r \in Address, u \in GasUsed, b \in BOOLEAN : GuestSelfDestruct(r, u, b)
    \/ \E p \in 0 .. MaxLen, n \in 0 .. MaxLen, m \in Memories, u \in GasUsed :
          GuestCompletes(p, n, m, u)

SpecGuest == InitHost /\ [][NextGuest]_vars

\* creates of a frame at address 0 or at the unsigned sender, of the frames
\* it calls at its own address, and of the contracts it creates
InitNonce ==
    InitFrames({[TxFrame(0, 1, 1) EXCEPT !.address = a] : a \in {0, UNSIGNED_SENDER}},
               {TestEngine})

NextNonce ==
    \/ \E s \in Schemes : Create(MaxGas, 0, <<1>>, s, TRUE, TRUE)
    \/ Call(MaxGas, Self, Self, <<>>, Self, <<0>>, "Call", TRUE)
    \/ FinishKnown(1)
    \/ FinishError(OutOfGas)

SpecNonce == InitNonce /\ [][NextNonce]_vars

\* creates of either value under both schemes, by a frame static or not, the
\* backend answering or not, whose children create, return, revert and fail
InitCreate == InitWith({CHOOSE s \in TxSchedules : s.exceptional_failed_code_deposit},
                       {0}, {InitContract(FALSE)})

NextCreate ==
    \/ \E v \in 0 .. 1, s \in Schemes, b1, b2 \in BOOLEAN :
          Create(MaxGas, v, <<1>>, s, b1, b2)
    \/ FinishKnown(1)
    \/ \E a \in BOOLEAN : FinishReturn(1, <<1>>, a, TRUE)
    \/ \E e \in {OutOfGas, Internal} : FinishError(e)

SpecCreate == InitCreate /\ [][NextCreate]_vars

\* the operations that write the substate, and the dispatches whose children
\* write theirs, in a frame static or not, under an engine past its transition
InitSubstate ==
    InitFrames({TopFrame(0, s, InitContract(FALSE)) : s \in BOOLEAN},
               Engines \ {TestEngine})

NextSubstate ==
    \/ \E d \in BytesUpTo(1) : Log(<<>>, d)
    \/ Suicide(Other(Self), TRUE)
    \/ IncSstoreClears
    \/ Create(MaxGas, 0, <<1>>, "FromSenderAndNonce", TRUE, TRUE)
    \/ \E t \in CallTypes : Call(MaxGas, Self, Other(Self), <<>>, Other(Self), <<0>>, t, TRUE)
    \/ Blockhash(0, TRUE)
    \/ FinishKnown(1)
    \/ FinishReturn(1, <<1>>, FALSE, TRUE)
    \/ FinishError(OutOfGas)

SpecSubstate == InitSubstate /\ [][NextSubstate]_vars

\* blockhash in every environment: block numbers around the window size and
\* the transitions, with all 256 last hashes, with one and with none
Numbers == {0, 1, 100, 255, 256, 257, 300}
HashCounts == {0, 1, WindowSize}
EnvInfos == {EnvInfo(c, len) : c \in Numbers, len \in HashCounts}

\* the heights asked for: the ends of the window of block c and around them
Heights(c) == {0, 1, c - 257, c - 256, c - 255, c - 2, c - 1, c, c + 1} \cap Nat

InitBlockhash ==
    /\ state = InitState
    /\ env_info \in EnvInfos
    /\ engine \in Engines
    /\ schedule = CHOOSE s \in TxSchedules : s.exceptional_failed_code_deposit
    /\ \E s \in BOOLEAN : frames = <<TopFrame(0, s, InitContract(FALSE))>>
    /\ tracer = <<>>
    /\ last = NoLast
    /\ lastRet = NoRet
    /\ ops = 0

NextBlockhash ==
    \/ \E h \in Heights(env_info.number), b \in BOOLEAN : Blockhash(h, b)
    \/ FinishKnown(1)
    \/ \E a \in BOOLEAN : FinishReturn(1, <<1>>, a, TRUE)
    \/ FinishError(OutOfGas)

SpecBlockhash == InitBlockhash /\ [][NextBlockhash]_vars

(* ======================================================================= *)
(* The claims                                                              *)
(* ======================================================================= *)
MutatingOps == {"set_storage", "log", "suicide"}
DispatchOps == {"create", "call"}

\* C1: in a frame whose static flag is set, set_storage, log and suicide
\* return MutableCallInStaticContext whatever their arguments, and leave the
\* world state (storage, balances), the substates and the tracer as they were.
C1_StaticRefusesMutation ==
    [][(Running /\ Top.static_flag /\ last'.op \in MutatingOps)
          => /\ last'.kind = "Err"
             /\ last'.err = MutableCallInStaticContext
             /\ state' = state
             /\ frames' = frames
             /\ tracer' = tracer]_vars

\* each of the three operations was refused in a static frame
C1_Witness ==
    /\ last.op = "suicide" /\ last.static
    /\ last.err = MutableCallInStaticContext
    /\ Running /\ Top.static_flag

\* C2 (as claimed): in a static frame, the backend answering, a create, and a
\* call that supplies a value, yield MutableCallInStaticContext and dispatch
\* no child.
C2_StaticDispatchYieldsError ==
    (/\ last.op \in DispatchOps
     /\ last.static
     /\ last.child # "BackendError"
     /\ last.op = "call" => last.params.value_kind = "Transfer")
        => /\ last.kind = "Err"
           /\ last.err = MutableCallInStaticContext

\* C3: the frame call or create dispatches is static exactly when the
\* dispatching frame is static or the child's call_type is StaticCall, and it
\* runs one level deeper; so below a static frame every frame is static.
C3_StaticMonotone ==
    /\ \A i \in 2 .. Len(frames) :
          /\ frames[i].static_flag =
                (frames[i - 1].static_flag \/ frames[i].call_type = "StaticCall")
          /\ frames[i].depth = frames[i - 1].depth + 1
    /\ \A i, j \in 1 .. Len(frames) :
          (i < j /\ frames[i].static_flag) => frames[j].static_flag

\* a static frame reached by StaticCall from a non-static one, and below it a
\* frame reached by a plain Call, static too
C3_Witness ==
    /\ Len(frames) = 3
    /\ ~frames[1].static_flag
    /\ frames[2].static_flag /\ frames[2].call_type = "StaticCall"
    /\ frames[3].static_flag /\ frames[3].call_type = "Call"

\* C4: while a child runs the substate of the dispatching frame stands still,
\* and when the child fails and call or create returns Failed, the substate
\* of the dispatching frame is the one it had: nothing of the child shows.
C4_FailedChildLeavesSubstate ==
    [][/\ (Running /\ Len(frames') >= Len(frames))
            => \A i \in 1 .. Len(frames) - 1 : frames'[i] = frames[i]
       /\ (Len(frames) > 1 /\ Len(frames') = Len(frames) - 1 /\ last'.kind = "Failed")
            => frames'[Len(frames')].substate = frames[Len(frames) - 1].substate]_vars

\* a child that had logged, self-destructed or created failed; its parent
\* keeps the log entry it had made before
C4_Witness ==
    /\ last.op \in DispatchOps /\ last.kind = "Failed" /\ last.child = "Failed"
    /\ last.child_effects
    /\ Running /\ Len(Top.substate.logs) = 1

\* C5: ret under InitContract, the backend answering init_code: with
\* cost = data.len() * create_data_gas, if cost > gas or data.len() >
\* create_data_limit it returns OutOfGas when exceptional_failed_code_deposit
\* holds and else gas unchanged, installing nothing; otherwise (cost = gas
\* included) it installs data at the frame's address and returns gas - cost.
C5_InitContractDeposit ==
    (lastRet.policy = "InitContract" /\ lastRet.backend_ok) =>
        LET cost == Len(lastRet.data) * schedule.create_data_gas
        IN IF cost > lastRet.gas_in \/ Len(lastRet.data) > schedule.create_data_limit
           THEN /\ ~lastRet.installed
                /\ lastRet.code = lastRet.code_before
                /\ IF schedule.exceptional_failed_code_deposit
                   THEN ~lastRet.ok /\ lastRet.err = OutOfGas
                   ELSE lastRet.ok /\ lastRet.gas = lastRet.gas_in
           ELSE /\ lastRet.ok
                /\ lastRet.installed
                /\ lastRet.code = lastRet.data
                /\ lastRet.gas = lastRet.gas_in - cost

\* a deposit that costs exactly the gas passed in is installed
C5_Witness ==
    /\ lastRet.policy = "InitContract" /\ lastRet.ok /\ lastRet.installed
    /\ Len(lastRet.data) > 0
    /\ Len(lastRet.data) * schedule.create_data_gas = lastRet.gas_in
    /\ lastRet.gas = 0

\* C6 (as claimed): whenever data.len() > create_data_limit, ret under
\* InitContract returns no successful gas_left.
C6_OversizeNeverSucceeds ==
    (lastRet.policy = "InitContract" /\ Len(lastRet.data) > schedule.create_data_limit)
        => ~lastRet.ok

\* C6 (amended): whenever data.len() > create_data_limit, ret installs no
\* code; it returns OutOfGas when exceptional_failed_code_deposit holds, and
\* when it does not it returns, successfully, the gas passed in unchanged.
C6_OversizeInstallsNothing ==
    (lastRet.policy = "InitContract" /\ Len(lastRet.data) > schedule.create_data_limit)
        => /\ ~lastRet.installed
           /\ lastRet.code = lastRet.code_before
           /\ schedule.exceptional_failed_code_deposit
                 => (~lastRet.ok /\ lastRet.err = OutOfGas)
           /\ ~schedule.exceptional_failed_code_deposit
                 => (lastRet.ok /\ lastRet.gas = lastRet.gas_in)

\* data over the cap that costs no more than the gas, handed back with the
\* gas under a schedule without exceptional_failed_code_deposit
C6_Witness ==
    /\ lastRet.policy = "InitContract"
    /\ Len(lastRet.data) > schedule.create_data_limit
    /\ Len(lastRet.data) * schedule.create_data_gas <= lastRet.gas_in
    /\ ~schedule.exceptional_failed_code_deposit
    /\ lastRet.ok /\ lastRet.gas = lastRet.gas_in

\* C7: under every policy, a ret that succeeds returns at most the gas passed
\* in, and the subtraction gas - cost of InitContract never overflows.
C7_GasNeverIncreases ==
    lastRet.policy # "None" =>
        /\ lastRet.err # "Overflow"
        /\ lastRet.ok => (0 <= lastRet.gas /\ lastRet.gas <= lastRet.gas_in)

\* a deposit was paid for: less gas comes back than went in
C7_Witness ==
    /\ lastRet.policy = "InitContract" /\ lastRet.ok
    /\ lastRet.gas < lastRet.gas_in

\* C8: ret under Return with a fixed slice copies the first
\* min(slice.len(), data.len()) bytes of the data to the start of the slice,
\* leaves the rest of the slice as it was, gives the copy sink the whole data
\* and returns the gas unchanged.
C8_ReturnFixedTruncates ==
    lastRet.policy = "ReturnFixed" =>
        LET n == Min(Len(lastRet.slice_before), Len(lastRet.data))
        IN /\ lastRet.ok /\ lastRet.gas = lastRet.gas_in
           /\ Len(lastRet.slice) = Len(lastRet.slice_before)
           /\ \A i \in 1 .. Len(lastRet.slice) :
                 lastRet.slice[i] = IF i <= n THEN lastRet.data[i]
                                    ELSE lastRet.slice_before[i]
           /\ lastRet.has_copy => lastRet.copy = lastRet.data
           /\ ~lastRet.installed

\* data shorter than the slice: the byte of the slice past it survives
C8_Witness ==
    /\ lastRet.policy = "ReturnFixed" /\ lastRet.has_copy
    /\ Len(lastRet.data) = 1 /\ Len(lastRet.slice_before) = 2
    /\ lastRet.slice_before[2] = 1 /\ lastRet.slice_before[1] # lastRet.data[1]
    /\ lastRet.slice = <<lastRet.data[1], 1>>

\* data longer than the slice: the sink holds what the slice cannot
C8_WitnessTruncated ==
    /\ lastRet.policy = "ReturnFixed" /\ lastRet.has_copy
    /\ Len(lastRet.data) = 2 /\ Len(lastRet.slice_before) = 1
    /\ lastRet.copy = lastRet.data

\* C9 (as claimed): a call or create whose child reverts is reported to the
\* guest as Reverted, not as Success, Created or Failed.
C9_RevertIsReported ==
    (last.op \in DispatchOps /\ last.child = "Reverted") => last.kind = "Reverted"

\* C10 (as claimed): a backend error met by call or create, or an internal
\* error of the child, comes back as an Internal error, never as Failed.
C10_BackendErrorPropagates ==
    (last.op \in DispatchOps /\ last.child \in {"BackendError", "Internal"})
        => /\ last.kind = "Err"
           /\ last.err = Internal

\* C11: in the window regime, c being the number of the current block,
\* blockhash(h) returns the zero hash when h is outside
\* [max(256, c) - 256, c), and when h is inside and the environment holds
\* the entry, it returns last_hashes[c - h - 1]: blockhash(c - 1) is
\* last_hashes[0].
C11_WindowAnswers ==
    (last.op = "blockhash" /\ last.regime = "window") =>
        LET c == env_info.number
            h == last.number
            lo == (IF c > 256 THEN c ELSE 256) - 256
        IN IF lo <= h /\ h < c
           THEN c - h - 1 < Len(env_info.last_hashes)
                   => /\ last.kind = "Ok"
                      /\ last.hash = env_info.last_hashes[(c - h - 1) + 1]
                      /\ h = c - 1 => last.hash = Head(env_info.last_hashes)
                      /\ last.hash = HashOf(h)
           ELSE last.kind = "Ok" /\ last.hash = ZeroHash

\* the oldest block of a full window was asked for and its hash returned
C11_Witness ==
    /\ last.op = "blockhash" /\ last.regime = "window" /\ last.kind = "Ok"
    /\ env_info.number > 256
    /\ last.number = env_info.number - 256
    /\ last.hash = env_info.last_hashes[256]
    /\ last.hash # ZeroHash

\* C12 (as claimed): for every current block number below eip210_transition
\* blockhash answers from the window and dispatches no child; the synthetic
\* call is made only when the number is at or after eip210_transition.
C12_RegimeByTransition ==
    last.op = "blockhash" =>
        /\ env_info.number < engine.eip210_transition => last.regime = "window"
        /\ last.regime = "contract" => env_info.number >= engine.eip210_transition

\* C13: the parameters call builds for the child have value = Transfer(v)
\* exactly when the caller supplies Some(v) and value = Apparent(w) otherwise,
\* w being the value of the calling frame; sender, address and code_address
\* are the ones passed in and gas_price is the calling frame's; the child
\* frame takes its address, value and gas price from them.
C13_CallParams ==
    (last.op = "call" /\ last.kind = "Dispatched") =>
        LET a == last.args
            q == last.params
        IN /\ a.value # <<>> => (q.value_kind = "Transfer" /\ q.value = a.value[1])
           /\ a.value = <<>> => (q.value_kind = "Apparent" /\ q.value = a.frame_value)
           /\ q.value_kind = "Transfer" <=> a.value # <<>>
           /\ q.sender = a.sender_address
           /\ q.address = a.receive_address
           /\ q.code_address = a.code_address
           /\ q.gas_price = a.frame_gas_price
           /\ Top.address = q.address /\ Top.value = q.value
           /\ Top.gas_price = q.gas_price

\* a frame of value 0 reached by Transfer(0), two levels down from a frame of
\* value 1, calls with no value: the child sees Apparent(0); the three
\* addresses differ
C13_Witness ==
    /\ last.op = "call" /\ last.kind = "Dispatched"
    /\ Len(frames) = 3
    /\ frames[1].value = 1 /\ frames[2].value = 0
    /\ last.args.value = <<>>
    /\ last.params.value_kind = "Apparent" /\ last.params.value = 0
    /\ last.params.gas_price = 2
    /\ last.params.sender # last.params.address
    /\ last.params.address # last.params.code_address
    /\ last.params.sender # last.params.code_address

\* C14: origin is the same over the call tree: the parameters of every child
\* built by call, by create and by the synthetic call of blockhash carry the
\* origin of the dispatching frame, so every frame at every depth has the
\* origin of the transaction.
C14_OriginInvariant ==
    /\ \A i \in 1 .. Len(frames) : frames[i].origin = frames[1].origin
    /\ (Running /\ last.kind = "Dispatched") =>
           /\ last.params.origin = frames[Len(frames) - 1].origin
           /\ Top.origin = last.params.origin

\* three nested dispatches, one by create, one by call and one by blockhash,
\* of a transaction whose origin is not the address of its first frame
C14_Witness ==
    /\ Len(frames) = 4
    /\ {frames[i].via : i \in 2 .. 4} = {"create", "call", "blockhash"}
    /\ frames[1].origin # frames[1].address
    /\ frames[4].origin = frames[1].origin
    /\ \E i \in 2 .. 4 : frames[i].origin # frames[i - 1].address

RECURSIVE SumOver(_, _)
\* the sum of f over the set S
SumOver(f, S) ==
    IF S = {} THEN 0
    ELSE LET x == CHOOSE y \in S : TRUE IN f[x] + SumOver(f, S \ {x})

\* C15: a successful suicide of the frame's address to a refund address other
\* than it moves the whole balance: the refund address gains exactly the
\* balance the frame's address had, which is left with none, no other
\* balance changes, and the sum of all balances is the same before and after.
C15_SuicideMovesBalance ==
    [][(Running /\ last'.op = "suicide" /\ last'.kind = "Ok"
           /\ last'.addr # Top.address)
          => LET a == Top.address
                 r == last'.addr
             IN /\ state'.balance[r] = state.balance[r] + state.balance[a]
                /\ state'.balance[a] = 0
                /\ \A x \in Address \ {a, r} : state'.balance[x] = state.balance[x]
                /\ SumOver(state'.balance, Address) = SumOver(state.balance, Address)]_vars

\* the frame's address gave its balance to another address, which holds more
\* than it had
C15_Witness ==
    /\ last.op = "suicide" /\ last.kind = "Ok"
    /\ Running /\ last.addr # Top.address
    /\ Len(tracer) = 1 /\ tracer[1].balance = 1
    /\ state.balance[Top.address] = 0
    /\ state.balance[last.addr] = 2
    /\ SumOver(state.balance, Address) = 3

\* C16: after a successful suicide in a non-static frame, to the frame's own
\* address or to another, the frame's address has no balance and is in the
\* suicide set of the substate; a second suicide of the same address adds no
\* second entry.
C16_SuicideRecorded ==
    (Running /\ last.op = "suicide" /\ last.kind = "Ok") =>
        /\ ~Top.static_flag
        /\ state.balance[Top.address] = 0
        /\ Top.address \in Top.substate.suicides
        /\ Cardinality(Top.substate.suicides) = 1

\* two suicides of one frame, the first to its own address, the second to
\* another: both are traced and the set holds the address once
C16_Witness ==
    /\ Running /\ last.op = "suicide" /\ last.kind = "Ok"
    /\ Len(tracer) = 2
    /\ tracer[1].refund = Top.address /\ tracer[2].refund # Top.address
    /\ Top.substate.suicides = {Top.address}
    /\ state.balance[Top.address] = 0

\* an execution in which the guest self-destructed, the host's suicide done
SelfDestructed ==
    /\ Running /\ last.op = "exec" /\ last.kind # "Err"
    /\ last.args.self_destruct # <<>>

C18_Termination ==
    (last.op = "exec" /\ last.kind # "Err") =>
        LET a == last.args
        IN /\ last.kind \in {"Known", "NeedsReturn"}
           /\ last.kind = "Known"
                 <=> (a.self_destruct # <<>> \/ (a.result_ptr = 0 /\ a.result_len = 0))
           /\ last.kind = "NeedsReturn"
                 => /\ Len(last.data) = a.result_len
                    /\ \A i \in 1 .. a.result_len : last.data[i] = a.memory[a.result_ptr + i]
                    /\ a.apply_state
           /\ 0 <= last.gas /\ last.gas <= a.budget

\* a guest returned the second byte of its memory, which differs from the first
C18_Witness ==
    /\ last.op = "exec" /\ last.kind = "NeedsReturn"
    /\ last.args.result_ptr = 1 /\ last.args.result_len = 1
    /\ last.args.memory[1] # last.args.memory[2]
    /\ last.data = <<last.args.memory[2]>>
    /\ last.gas < last.args.budget

\* a guest that left a result_ptr and a zero result_len returns no bytes
C18_WitnessEmpty ==
    /\ last.op = "exec" /\ last.kind = "NeedsReturn"
    /\ last.args.result_ptr # 0 /\ last.args.result_len = 0
    /\ last.data = <<>>

\* C19: in a non-static frame a successful set_storage(k, v) writes v at k in
\* the storage of the frame's own address and nowhere else, no other host
\* operation of the frame writes storage, and storage_at(k) returns what the
\* storage of the frame's address holds at k: so storage_at(k) after
\* set_storage(k, v) returns v, the last value written to k.
C19_StorageRoundTrip ==
    [][Running =>
         /\ (last'.op = "set_storage" /\ last'.kind = "Ok")
               => /\ ~Top.static_flag
                  /\ state'.storage[Top.address][last'.key] = last'.value
                  /\ \A a \in Address, k \in Key :
                        (a # Top.address \/ k # last'.key)
                           => state'.storage[a][k] = state.storage[a][k]
         /\ ~(last'.op = "set_storage" /\ last'.kind = "Ok")
               => state'.storage = state.storage
         /\ (last'.op = "storage_at" /\ last'.kind = "Ok")
               => last'.value = state.storage[Top.address][last'.key]
         /\ (/\ last.op = "set_storage" /\ last.kind = "Ok"
             /\ last'.op = "storage_at" /\ last'.kind = "Ok"
             /\ last'.key = last.key)
               => last'.value = last.value]_vars

\* a frame whose address is not the origin reads back the 1 it wrote at key
\* 1, key 0 and the storage of the origin still holding 0
C19_Witness ==
    /\ Running /\ last.op = "storage_at" /\ last.kind = "Ok"
    /\ Top.address # Top.origin
    /\ last.key = 1 /\ last.value = 1
    /\ state.storage[Top.address] = [k \in Key |-> k]
    /\ \A k \in Key : state.storage[Top.origin][k] = 0

\* a create that got past its nonce step: the child is running, or the
\* executive refused it
CreatePassed ==
    /\ last.op = "create"
    /\ \/ last.kind = "Dispatched"
       \/ last.kind = "Failed" /\ last.child = MutableCallInStaticContext

\* the child of a create ended and create returned
CreateReturned ==
    /\ Running /\ last.op = "create"
    /\ \/ last.kind = "Created"
       \/ last.kind = "Failed" /\ last.child \in {"Failed", "Internal"}

\* what C20 says of the nonce step: one more than the nonce read, except for
\* the unsigned sender, under every scheme; the address is derived from the
\* nonce read; the end of the child takes nothing back
NonceStep ==
    /\ CreatePassed =>
          LET a == last.args
          IN /\ state.nonce[a.sender] =
                   last.nonce + (IF a.sender = UNSIGNED_SENDER THEN 0 ELSE 1)
             /\ last.addr = ContractAddress(a.address_scheme, a.sender, last.nonce, a.code)
    /\ CreateReturned =>
          /\ state.nonce[Top.address] >= last.nonce
          /\ last.kind = "Failed" => state.nonce[Top.address] = last.nonce

\* C20 (as claimed): create increments the nonce of the frame's address by
\* exactly one under every scheme and whatever the outcome of the child,
\* except for the unsigned sender; the address is derived from the nonce read
\* before the increment, so the k-th create of a frame uses the initial nonce
\* plus k - 1.
C20_KthCreateNonce ==
    /\ NonceStep
    /\ (CreatePassed /\ last.args.sender # UNSIGNED_SENDER)
          => last.nonce = last.args.nonce0 + last.args.k - 1

\* C20 (amended): as claimed up to the derivation of the address from the
\* nonce read before the increment; the k-th create of a frame that is not
\* at the unsigned sender uses at least the initial nonce plus k - 1, more
\* when another frame of the same address created in between, and every
\* create of a frame at the unsigned sender uses the initial nonce.
C20_NonceStep ==
    /\ NonceStep
    /\ (CreatePassed /\ last.args.sender # UNSIGNED_SENDER)
          => last.nonce >= last.args.nonce0 + last.args.k - 1
    /\ (CreatePassed /\ last.args.sender = UNSIGNED_SENDER)
          => last.nonce = last.args.nonce0

\* the second create of a frame, its first child having failed, uses the
\* initial nonce plus one and leaves the nonce at plus two
C20_Witness ==
    /\ CreatePassed /\ last.kind = "Dispatched"
    /\ last.args.sender # UNSIGNED_SENDER
    /\ last.args.k = 2
    /\ last.nonce = last.args.nonce0 + 1
    /\ state.nonce[last.args.sender] = last.args.nonce0 + 2
    /\ frames[Len(frames) - 1].substate.contracts_created = <<>>

\* the second create of a frame at the unsigned sender uses the nonce of the
\* first
C20_WitnessUnsigned ==
    /\ CreatePassed /\ last.args.sender = UNSIGNED_SENDER
    /\ last.args.k = 2 /\ last.nonce = last.args.nonce0
    /\ state.nonce[UNSIGNED_SENDER] = last.nonce

\* C21: create appends the derived address to contracts_created exactly when
\* it returns Created(address, gas_left), the address returned being the one
\* appended, and appends nothing when it returns Failed, before or after the
\* dispatch; the child frame runs with address = code_address = the derived
\* address, sender = the creating frame's address, value = Transfer(value)
\* and call_type = None.
C21_CreateRecordsAddress ==
    [][Running =>
         /\ (last'.op = "create" /\ last'.kind = "Dispatched") =>
               LET q == last'.params
                   a == last'.args
                   derived == ContractAddress(a.address_scheme, Top.address,
                                              state.nonce[Top.address], a.code)
                   child == frames'[Len(frames')]
               IN /\ Len(frames') = Len(frames) + 1
                  /\ q.address = derived /\ q.code_address = derived
                  /\ q.sender = Top.address
                  /\ q.value_kind = "Transfer" /\ q.value = last'.value
                  /\ q.call_type = "None"
                  /\ child.address = derived /\ child.value = last'.value
                  /\ child.call_type = "None"
                  /\ child.substate = EmptySubstate
                  /\ frames'[Len(frames)].substate = Top.substate
         /\ (last'.op = "create" /\ last'.kind = "Failed" /\ Len(frames') = Len(frames))
               => frames'[Len(frames')].substate = Top.substate
         /\ (Len(frames) > 1 /\ Top.via = "create" /\ Len(frames') = Len(frames) - 1) =>
               LET before == frames[Len(frames) - 1].substate.contracts_created
                   after == frames'[Len(frames')].substate.contracts_created
               IN /\ last'.op = "create" /\ last'.kind \in {"Created", "Failed"}
                  /\ last'.kind = "Created"
                        => /\ last'.addr = Top.address
                           /\ Len(after) > Len(before)
                           /\ after[Len(after)] = last'.addr
                           /\ SubSeq(after, 1, Len(before)) = before
                           /\ SubSeq(after, Len(before) + 1, Len(after) - 1)
                                 \in {<<>>, Top.substate.contracts_created}
                  /\ last'.kind = "Failed" => after = before
                  /\ after # before <=> last'.kind = "Created"]_vars

\* a frame whose first create failed and whose second returned Created: its
\* list holds the one address, the one returned, derived from its address and
\* the nonce the second create read
C21_Witness ==
    /\ Running /\ last.op = "create" /\ last.kind = "Created"
    /\ Top.creates = 2
    /\ Top.substate.contracts_created = <<last.addr>>
    /\ state.nonce[Top.address] = 2
    /\ last.addr \in {ContractAddress(s, Top.address, 1, <<1>>) : s \in Schemes}

\* C22: in a non-static frame every log call appends exactly one entry at the
\* end of substate.logs, carrying the frame's address and the given topics
\* and data, and leaves the earlier entries and the rest of the substate as
\* they were; so the substate holds the entries in the order they were issued.
C22_LogAppends ==
    [][(Running /\ ~Top.static_flag /\ last'.op = "log") =>
          LET logs == Top.substate.logs
              after == frames'[Len(frames')].substate
          IN /\ last'.kind = "Ok"
             /\ Len(frames') = Len(frames)
             /\ Len(after.logs) = Len(logs) + 1
             /\ after.logs[Len(after.logs)] =
                   [address |-> Top.address, topics |-> last'.args, data |-> last'.data]
             /\ \A i \in 1 .. Len(logs) : after.logs[i] = logs[i]
             /\ after = [Top.substate EXCEPT !.logs = after.logs]]_vars

\* three log calls of a frame, of different topics and data: the entries
\* stand in the order of the calls
C22_Witness ==
    /\ Running /\ last.op = "log" /\ last.kind = "Ok"
    /\ Top.address = 1
    /\ Top.substate.logs =
          <<[address |-> 1, topics |-> <<>>, data |-> <<1>>],
            [address |-> 1, topics |-> <<1>>, data |-> <<0>>],
            [address |-> 1, topics |-> <<0>>, data |-> <<>>]>>

\* the substate t holds all that s holds: the logs and the created contracts
\* of s at the head of those of t, the suicides of s among those of t, and a
\* count of clears that is no smaller
Grows(s, t) ==
    /\ Len(t.logs) >= Len(s.logs)
    /\ SubSeq(t.logs, 1, Len(s.logs)) = s.logs
    /\ s.suicides \subseteq t.suicides
    /\ Len(t.contracts_created) >= Len(s.contracts_created)
    /\ SubSeq(t.contracts_created, 1, Len(s.contracts_created)) = s.contracts_created
    /\ t.sstore_clears_count >= s.sstore_clears_count

\* C23: the substate of a frame is append-only under log, suicide, create,
\* call, blockhash and inc_sstore_clears, those of its children included
\* (the entries of a child reach it only when the child's effects are kept):
\* at every step the logs grow by a suffix, the suicide set and the list of
\* created contracts only grow, and sstore_clears_count does not decrease;
\* inc_sstore_clears raises it by exactly one, in a static frame too, and
\* changes nothing else.
C23_SubstateAppendOnly ==
    [][/\ \A i \in 1 .. Min(Len(frames), Len(frames')) :
             Grows(frames[i].substate, frames'[i].substate)
       /\ last'.op = "inc_sstore_clears" =>
             /\ Len(frames') = Len(frames)
             /\ frames'[Len(frames')].substate =
                   [Top.substate EXCEPT
                       !.sstore_clears_count = Top.substate.sstore_clears_count + 1]
             /\ state' = state]_vars

\* a static frame, called by a frame that had logged, counted a clear
C23_Witness ==
    /\ Len(frames) = 2 /\ last.op = "inc_sstore_clears" /\ last.static
    /\ ~frames[1].static_flag /\ Len(frames[1].substate.logs) = 1
    /\ Top.static_flag /\ Top.substate.sstore_clears_count = 1

\* a frame that had logged holds, after its child returned, its log entry
\* first and the child's after it
C23_WitnessMerged ==
    /\ Len(frames) = 1 /\ last.op = "call" /\ last.kind = "Success"
    /\ last.child_effects
    /\ Len(Top.substate.logs) = 2
    /\ Top.substate.logs[1].address = Top.address
    /\ Top.substate.logs[2].address # Top.address

\* C24 (as claimed): the synthetic call of blockhash is dispatched as a child
\* of the frame that calls blockhash: it runs one level deeper and is static
\* whenever that frame is static, so that below a static frame no set_storage,
\* log or suicide succeeds.
C24_BlockhashChildInherits ==
    /\ \A i \in 2 .. Len(frames) :
          frames[i].via = "blockhash" =>
             /\ frames[i].depth = frames[i - 1].depth + 1
             /\ frames[i - 1].static_flag => frames[i].static_flag
    /\ (Running /\ frames[1].static_flag /\ last.op \in MutatingOps)
          => last.kind = "Err"

\* C25 (as claimed): in the window regime blockhash never traps: for every
\* height asked for and every environment it returns a hash, the zero hash
\* when the height is inside the window and last_hashes has no entry for it.
C25_WindowNeverTraps ==
    (last.op = "blockhash" /\ last.regime = "window") =>
        /\ last.kind = "Ok"
        /\ Running
        /\ (/\ InWindow(env_info.number, last.number)
            /\ env_info.number - last.number - 1 >= Len(env_info.last_hashes))
              => last.hash = ZeroHash

====
